---------------------------- MODULE Spec2Model ----------------------------
(***************************************************************************)
(* A model of server/mcp-server.py: the MCPServer dispatcher, its three    *)
(* tools and the stdio transport loop of main().                           *)
(*                                                                         *)
(* Python values and JSON values are one universe of tagged records:       *)
(*   [t |-> "null"], [t |-> "bool", v |-> TRUE], [t |-> "int", v |-> 5],   *)
(*   [t |-> "real", v |-> 5] (v counts halves: 5 is 2.5),                  *)
(*   [t |-> "str", v |-> "abc"], [t |-> "arr", v |-> <<...>>],             *)
(*   [t |-> "obj", v |-> a function from keys to values].                  *)
(* A call that may raise yields an outcome record: Ok(value, effects) or   *)
(* Raise(type, message, effects); the effects are the handler calls, tool  *)
(* executions, urlopen calls and open calls made on the way.               *)
(***************************************************************************)
EXTENDS Integers, Sequences, FiniteSets, TLC

VARIABLES
    server,   \* the MCPServer instance: tools, resources, message_id
    fs,       \* the file system: absolute path -> [kind, content]
    cwd,      \* os.getcwd()
    stdin,    \* the lines of the input stream, in order
    nread,    \* how many lines of stdin readline() has returned
    line,     \* main's local `line`
    pc,       \* main's position: "read", "handle" or "done"
    stdout,   \* the response lines printed so far
    log       \* per handled line: what ran while it was handled

vars == <<server, fs, cwd, stdin, nread, line, pc, stdout, log>>

---------------------------------------------------------------------------
(* Values *)

JNull == [t |-> "null"]
JBool(b) == [t |-> "bool", v |-> b]
JInt(n) == [t |-> "int", v |-> n]
JReal(h) == [t |-> "real", v |-> h]
JStr(s) == [t |-> "str", v |-> s]
JArr(s) == [t |-> "arr", v |-> s]
JObj(f) == [t |-> "obj", v |-> f]
EmptyObj == JObj(<<>>)

\* dict.get(key, default)
Get(d, key, default) == IF key \in DOMAIN d.v THEN d.v[key] ELSE default

\* type(x).__name__
PyType(x) ==
    CASE x.t = "null" -> "NoneType"
      [] x.t = "bool" -> "bool"
      [] x.t = "int" -> "int"
      [] x.t = "real" -> "float"
      [] x.t = "str" -> "str"
      [] x.t = "arr" -> "list"
      [] x.t = "obj" -> "dict"

\* bool(x) is False
Falsy(x) ==
    CASE x.t = "null" -> TRUE
      [] x.t = "bool" -> ~x.v
      [] x.t \in {"int", "real"} -> x.v = 0
      [] x.t = "str" -> Len(x.v) = 0
      [] x.t = "arr" -> Len(x.v) = 0
      [] x.t = "obj" -> DOMAIN x.v = {}

\* isinstance(x, (int, float)): bool is a subclass of int
IsIntOrFloat(x) == x.t \in {"int", "real", "bool"}

\* hash(x) raises TypeError for a list or a dict
Unhashable(x) == x.t \in {"arr", "obj"}

\* str() of an int and of a float (floats are counted in halves)
IntStr(n) == ToString(n)
FloatStr(h) ==
    LET m == IF h < 0 THEN -h ELSE h
    IN  (IF h < 0 THEN "-" ELSE "") \o ToString(m \div 2)
            \o (IF m % 2 = 1 THEN ".5" ELSE ".0")

\* a + b for numbers: an int unless one operand is a float
Halves(x) ==
    CASE x.t = "bool" -> IF x.v THEN 2 ELSE 0
      [] x.t = "int" -> 2 * x.v
      [] x.t = "real" -> x.v
PyAdd(a, b) ==
    IF a.t = "real" \/ b.t = "real"
    THEN JReal(Halves(a) + Halves(b))
    ELSE JInt((Halves(a) + Halves(b)) \div 2)

RECURSIVE PyRepr(_), ReprItems(_)
\* repr(x). A dict's items are printed in insertion order, which the model
\* does not keep: a dict of several keys is printed in an order chosen here.
PyRepr(x) ==
    CASE x.t = "null" -> "None"
      [] x.t = "bool" -> IF x.v THEN "True" ELSE "False"
      [] x.t = "int" -> IntStr(x.v)
      [] x.t = "real" -> FloatStr(x.v)
      [] x.t = "str" -> "'" \o x.v \o "'"
      [] x.t = "arr" -> "[" \o ReprItems(x.v) \o "]"
      [] x.t = "obj" ->
            IF DOMAIN x.v = {} THEN "{}"
            ELSE LET k == CHOOSE k \in DOMAIN x.v : TRUE
                     rest == [j \in DOMAIN x.v \ {k} |-> x.v[j]]
                 IN  "{'" \o k \o "': " \o PyRepr(x.v[k])
                        \o (IF DOMAIN rest = {} THEN "}"
                            ELSE ", " \o SubSeq(PyRepr(JObj(rest)), 2,
                                                Len(PyRepr(JObj(rest)))))
ReprItems(s) ==
    IF Len(s) = 0 THEN ""
    ELSE IF Len(s) = 1 THEN PyRepr(s[1])
    ELSE PyRepr(s[1]) \o ", " \o ReprItems(Tail(s))

\* str(x), as an f-string formats it
PyStr(x) == IF x.t = "str" THEN x.v ELSE PyRepr(x)

---------------------------------------------------------------------------
(* Outcomes and effects *)

Ok(val, eff) == [ok |-> TRUE, val |-> val, eff |-> eff]
Raise(type, msg, eff) == [ok |-> FALSE, exc |-> [type |-> type, msg |-> msg], eff |-> eff]

Effect(op, arg) == [op |-> op, arg |-> arg]

\* x.get(...) on a value that is no dict
NoGet(x, eff) ==
    Raise("AttributeError", "'" \o PyType(x) \o "' object has no attribute 'get'", eff)

---------------------------------------------------------------------------
(* posixpath, as os.path.abspath and str.startswith use it *)

startswith(s, prefix) ==
    Len(prefix) <= Len(s) /\ SubSeq(s, 1, Len(prefix)) = prefix

endswith(s, suffix) ==
    Len(suffix) <= Len(s) /\ SubSeq(s, Len(s) - Len(suffix) + 1, Len(s)) = suffix

\* the index of the first "/" of s, 0 when there is none
FirstSlash(s) ==
    IF \E i \in 1..Len(s) : SubSeq(s, i, i) = "/"
    THEN CHOOSE i \in 1..Len(s) :
            /\ SubSeq(s, i, i) = "/"
            /\ \A j \in 1..(i - 1) : SubSeq(s, j, j) # "/"
    ELSE 0

RECURSIVE split(_)
\* s.split('/')
split(s) ==
    LET i == FirstSlash(s)
    IN  IF i = 0 THEN <<s>>
        ELSE <<SubSeq(s, 1, i - 1)>> \o split(SubSeq(s, i + 1, Len(s)))

RECURSIVE join(_)
\* '/'.join(comps)
join(comps) ==
    IF Len(comps) = 0 THEN ""
    ELSE IF Len(comps) = 1 THEN comps[1]
    ELSE comps[1] \o "/" \o join(Tail(comps))

RECURSIVE NormComps(_, _, _)
\* the loop of posixpath.normpath over the components
NormComps(comps, new_comps, initial_slashes) ==
    IF Len(comps) = 0 THEN new_comps
    ELSE LET comp == Head(comps)
             n == Len(new_comps)
         IN  IF comp \in {"", "."}
             THEN NormComps(Tail(comps), new_comps, initial_slashes)
             ELSE IF \/ comp # ".."
                     \/ (initial_slashes = 0 /\ n = 0)
                     \/ (n > 0 /\ new_comps[n] = "..")
             THEN NormComps(Tail(comps), Append(new_comps, comp), initial_slashes)
             ELSE IF n > 0
             THEN NormComps(Tail(comps), SubSeq(new_comps, 1, n - 1), initial_slashes)
             ELSE NormComps(Tail(comps), new_comps, initial_slashes)

\* posixpath.normpath
normpath(path) ==
    IF Len(path) = 0 THEN "."
    ELSE LET initial_slashes ==
                 IF ~startswith(path, "/") THEN 0
                 ELSE IF startswith(path, "//") /\ ~startswith(path, "///") THEN 2
                 ELSE 1
             body == join(NormComps(split(path), <<>>, initial_slashes))
             res == (IF initial_slashes = 2 THEN "//"
                     ELSE IF initial_slashes = 1 THEN "/" ELSE "") \o body
         IN  IF Len(res) = 0 THEN "." ELSE res

\* posixpath.join(a, b)
pathjoin(a, b) ==
    IF startswith(b, "/") THEN b
    ELSE IF Len(a) = 0 \/ endswith(a, "/") THEN a \o b
    ELSE a \o "/" \o b

\* os.path.abspath(path) in working directory wd
abspath(path, wd) ==
    IF startswith(path, "/") THEN normpath(path) ELSE normpath(pathjoin(wd, path))

---------------------------------------------------------------------------
(* MCPServer.__init__ *)

Tools ==
    << [name |-> "addNumbers",
        info |-> JObj([
            description |-> JStr("Add two numbers together"),
            inputSchema |-> JObj([
                type |-> JStr("object"),
                properties |-> JObj([
                    a |-> JObj([type |-> JStr("number"), description |-> JStr("First number")]),
                    b |-> JObj([type |-> JStr("number"), description |-> JStr("Second number")])]),
                required |-> JArr(<<JStr("a"), JStr("b")>>)])])],
       [name |-> "fetchContent",
        info |-> JObj([
            description |-> JStr("Fetch content from a URL"),
            inputSchema |-> JObj([
                type |-> JStr("object"),
                properties |-> JObj([
                    url |-> JObj([type |-> JStr("string"), description |-> JStr("URL to fetch")]),
                    method |-> JObj([type |-> JStr("string"),
                                     enum |-> JArr(<<JStr("GET"), JStr("POST")>>),
                                     default |-> JStr("GET")])]),
                required |-> JArr(<<JStr("url")>>)])])],
       [name |-> "readFile",
        info |-> JObj([
            description |-> JStr("Read file contents (safe, limited access)"),
            inputSchema |-> JObj([
                type |-> JStr("object"),
                properties |-> JObj([
                    path |-> JObj([type |-> JStr("string"), description |-> JStr("File path to read")])]),
                required |-> JArr(<<JStr("path")>>)])])] >>

NewServer == [tools |-> Tools, resources |-> <<>>, message_id |-> 1]

\* the keys of self.tools
ToolNames(srv) == {srv.tools[i].name : i \in 1..Len(srv.tools)}

\* tool_name in self.tools, for a hashable tool_name
InTools(tool_name, srv) == tool_name.t = "str" /\ tool_name.v \in ToolNames(srv)

---------------------------------------------------------------------------
(* Response envelopes *)

create_success_response(msg_id, result) ==
    JObj([jsonrpc |-> JStr("2.0"), id |-> msg_id, result |-> result])

\* create_error_response, had it also set "result" (to null)
create_error_response_with_result(msg_id, code, message) ==
    JObj([jsonrpc |-> JStr("2.0"), id |-> msg_id, result |-> JNull,
          error |-> JObj([code |-> JInt(code), message |-> JStr(message)])])

create_error_response(msg_id, code, message) ==
    JObj([jsonrpc |-> JStr("2.0"), id |-> msg_id,
          error |-> JObj([code |-> JInt(code), message |-> JStr(message)])])

\* the content envelope every tool returns
TextContent(text) ==
    JObj([content |-> JArr(<<JObj([type |-> JStr("text"), text |-> JStr(text)])>>)])

---------------------------------------------------------------------------
(* execute_tool *)

FetchLimit == 2000
ReadLimit == 5000
TruncMark == "... [truncated]"

\* the size limit, had it cut without a marker
Truncate_silent(content, limit) ==
    IF Len(content) > limit THEN SubSeq(content, 1, limit) ELSE content

\* content[:limit] + marker when len(content) > limit
Truncate(content, limit) ==
    IF Len(content) > limit THEN SubSeq(content, 1, limit) \o TruncMark ELSE content

\* the addNumbers branch for the values a and b of arguments.get
add_numbers(a, b, eff) ==
    IF ~IsIntOrFloat(a) \/ ~IsIntOrFloat(b)
    THEN Raise("ValueError", "Both 'a' and 'b' must be numbers", eff)
    ELSE Ok(TextContent(PyStr(PyAdd(a, b))), eff)

tool_addNumbers(arguments, eff) ==
    IF arguments.t # "obj" THEN NoGet(arguments, eff)
    ELSE add_numbers(Get(arguments, "a", JNull), Get(arguments, "b", JNull), eff)

\* whether a URL string names a scheme, as urllib.request.Request requires
HasScheme(url) == \E i \in 2..Len(url) : SubSeq(url, i, i) = ":"

\* urllib.request.urlopen(url) followed by response.read().decode('utf-8');
\* net is what the network answers this call
urlopen_read(url, net, eff) ==
    LET eff1 == Append(eff, Effect("urlopen", PyStr(url)))
    IN  IF url.t # "str"
        THEN Raise("AttributeError",
                   "'" \o PyType(url) \o "' object has no attribute 'timeout'", eff1)
        ELSE IF ~HasScheme(url.v)
        THEN Raise("ValueError", "unknown url type: '" \o url.v \o "'", eff1)
        ELSE IF net.kind = "urlerror"
        THEN Raise("URLError", "<urlopen error " \o net.reason \o ">", eff1)
        ELSE IF net.kind = "undecodable"
        THEN Raise("UnicodeDecodeError",
                   "'utf-8' codec can't decode byte 0xff in position 0: invalid start byte",
                   eff1)
        ELSE Ok(net.body, eff1)

\* the rest of the fetchContent branch once urlopen and read have ended as r:
\* the size limit, and `except urllib.error.URLError`
fetch_result(r) ==
    IF r.ok THEN Ok(TextContent(Truncate(r.val, FetchLimit)), r.eff)
    ELSE IF r.exc.type = "URLError"
    THEN Raise("ValueError", "Failed to fetch URL: " \o r.exc.msg, r.eff)
    ELSE r

\* the fetchContent branch, had it sent the request for "POST" as for "GET"
tool_fetchContent_post(arguments, env, eff) ==
    IF arguments.t # "obj" THEN NoGet(arguments, eff)
    ELSE IF Falsy(Get(arguments, "url", JNull))
    THEN Raise("ValueError", "URL is required", eff)
    ELSE IF Get(arguments, "method", JStr("GET")) \in {JStr("GET"), JStr("POST")}
    THEN fetch_result(urlopen_read(Get(arguments, "url", JNull), env.net, eff))
    ELSE Raise("ValueError",
               "HTTP method '" \o PyStr(Get(arguments, "method", JStr("GET")))
                    \o "' not supported", eff)

tool_fetchContent(arguments, env, eff) ==
    IF arguments.t # "obj" THEN NoGet(arguments, eff)
    ELSE IF Falsy(Get(arguments, "url", JNull))
    THEN Raise("ValueError", "URL is required", eff)
    ELSE IF Get(arguments, "method", JStr("GET")) = JStr("GET")
    THEN fetch_result(urlopen_read(Get(arguments, "url", JNull), env.net, eff))
    ELSE Raise("ValueError",
               "HTTP method '" \o PyStr(Get(arguments, "method", JStr("GET")))
                    \o "' not supported", eff)

\* safe_dirs and the any(... startswith ...) over them
safe_dirs(wd) == <<"/tmp", "/var/tmp", wd>>
is_safe(file_path, wd) ==
    \E i \in 1..Len(safe_dirs(wd)) :
        startswith(abspath(file_path, wd), abspath(safe_dirs(wd)[i], wd))

\* the file the file system finds at a path: the model has no symbolic links,
\* so the file system resolves a path as abspath does
Resolve(file_path, env) == abspath(file_path, env.cwd)

\* os.path.exists(p) and os.path.isfile(p), p resolving to `resolved`
isfile(resolved, env) ==
    resolved \in DOMAIN env.fs /\ env.fs[resolved].kind # "dir"

\* open(file_path, 'r', encoding='utf-8') and f.read(), for the file f there
open_read(file_path, f, eff) ==
    IF f.kind = "locked"
    THEN Raise("PermissionError",
               "[Errno 13] Permission denied: '" \o file_path \o "'",
               Append(eff, Effect("open", file_path)))
    ELSE IF f.kind = "binary"
    THEN Raise("UnicodeDecodeError",
               "'utf-8' codec can't decode byte 0xff in position 0: invalid start byte",
               Append(eff, Effect("open", file_path)))
    ELSE Ok(f.content, Append(eff, Effect("open", file_path)))

\* the rest of the branch once open and read have ended as r: the size limit,
\* and `except Exception`
read_result(r) ==
    IF r.ok THEN Ok(TextContent(Truncate(r.val, ReadLimit)), r.eff)
    ELSE Raise("ValueError", "Failed to read file: " \o r.exc.msg, r.eff)

\* the try block of the readFile branch, had a missing file been raised as
\* an error
read_checked_raises(file_path, resolved, env, eff) ==
    IF isfile(resolved, env)
    THEN read_result(open_read(file_path, env.fs[resolved], eff))
    ELSE Raise("ValueError", "File not found or not accessible: " \o file_path, eff)

\* the try block of the readFile branch, file_path resolving to `resolved`
read_checked(file_path, resolved, env, eff) ==
    IF isfile(resolved, env)
    THEN read_result(open_read(file_path, env.fs[resolved], eff))
    ELSE Ok(TextContent("File not found or not accessible: " \o file_path), eff)

\* the readFile branch for the value file_path of arguments.get("path")
read_path(file_path, env, eff) ==
    IF Falsy(file_path) THEN Raise("ValueError", "File path is required", eff)
    ELSE IF file_path.t # "str"
    THEN Raise("TypeError",
               "expected str, bytes or os.PathLike object, not " \o PyType(file_path), eff)
    ELSE IF ~is_safe(file_path.v, env.cwd)
    THEN Raise("ValueError", "Access to this file path is not allowed", eff)
    ELSE read_checked(file_path.v, Resolve(file_path.v, env), env, eff)

tool_readFile(arguments, env, eff) ==
    IF arguments.t # "obj" THEN NoGet(arguments, eff)
    ELSE read_path(Get(arguments, "path", JNull), env, eff)

\* the branches of execute_tool; eff records that it was entered
tool_branch(tool_name, arguments, env, eff) ==
    IF tool_name = JStr("addNumbers") THEN tool_addNumbers(arguments, eff)
    ELSE IF tool_name = JStr("fetchContent") THEN tool_fetchContent(arguments, env, eff)
    ELSE IF tool_name = JStr("readFile") THEN tool_readFile(arguments, env, eff)
    ELSE Raise("ValueError", "Unknown tool: " \o PyStr(tool_name), eff)

execute_tool(tool_name, arguments, env) ==
    tool_branch(tool_name, arguments, env, <<Effect("execute_tool", PyStr(tool_name))>>)

---------------------------------------------------------------------------
(* The method handlers *)

handle_initialize(msg_id, params) ==
    Ok(create_success_response(msg_id, JObj([
            protocolVersion |-> JStr("2024-11-05"),
            capabilities |-> JObj([tools |-> EmptyObj, resources |-> EmptyObj]),
            serverInfo |-> JObj([name |-> JStr("browser-mcp-server"),
                                 version |-> JStr("1.0.0")])])),
       <<Effect("handler", "handle_initialize")>>)

\* handle_tools_list, had it listed the registry back to front
handle_tools_list_reversed(msg_id, srv) ==
    Ok(create_success_response(msg_id, JObj([tools |-> JArr(
            [i \in 1..Len(srv.tools) |->
                JObj([name |-> JStr(srv.tools[Len(srv.tools) + 1 - i].name),
                      description |-> srv.tools[Len(srv.tools) + 1 - i].info.v["description"],
                      inputSchema |-> srv.tools[Len(srv.tools) + 1 - i].info.v["inputSchema"]])])])),
       <<Effect("handler", "handle_tools_list")>>)

handle_tools_list(msg_id, srv) ==
    LET tools == [i \in 1..Len(srv.tools) |->
                    JObj([name |-> JStr(srv.tools[i].name),
                          description |-> srv.tools[i].info.v["description"],
                          inputSchema |-> srv.tools[i].info.v["inputSchema"]])]
    IN  Ok(create_success_response(msg_id, JObj([tools |-> JArr(tools)])),
           <<Effect("handler", "handle_tools_list")>>)

\* the try statement of handle_tools_call, had it caught ValueError only
tool_response_value_errors(msg_id, r, eff) ==
    IF r.ok
    THEN Ok(create_success_response(msg_id, r.val), eff \o r.eff)
    ELSE IF r.exc.type = "ValueError"
    THEN Ok(create_error_response(msg_id, -32603,
                "Tool execution failed: " \o r.exc.msg), eff \o r.eff)
    ELSE Raise(r.exc.type, r.exc.msg, eff \o r.eff)

\* the try statement of handle_tools_call once execute_tool has ended as r
tool_response(msg_id, r, eff) ==
    IF r.ok
    THEN Ok(create_success_response(msg_id, r.val), eff \o r.eff)
    ELSE Ok(create_error_response(msg_id, -32603,
                "Tool execution failed: " \o r.exc.msg), eff \o r.eff)

\* handle_tools_call, had it answered an unknown tool with a code of its own
call_tool_own_code(msg_id, tool_name, arguments, srv, env, eff) ==
    IF Unhashable(tool_name)
    THEN Raise("TypeError", "unhashable type: '" \o PyType(tool_name) \o "'", eff)
    ELSE IF ~InTools(tool_name, srv)
    THEN Ok(create_error_response(msg_id, -32001,
                "Unknown tool: " \o PyStr(tool_name)), eff)
    ELSE tool_response(msg_id, execute_tool(tool_name, arguments, env), eff)

\* handle_tools_call for the values tool_name and arguments of params.get
call_tool(msg_id, tool_name, arguments, srv, env, eff) ==
    IF Unhashable(tool_name)
    THEN Raise("TypeError", "unhashable type: '" \o PyType(tool_name) \o "'", eff)
    ELSE IF ~InTools(tool_name, srv)
    THEN Ok(create_error_response(msg_id, -32602,
                "Unknown tool: " \o PyStr(tool_name)), eff)
    ELSE tool_response(msg_id, execute_tool(tool_name, arguments, env), eff)

handle_tools_call(msg_id, params, srv, env) ==
    IF params.t # "obj"
    THEN NoGet(params, <<Effect("handler", "handle_tools_call")>>)
    ELSE call_tool(msg_id, Get(params, "name", JNull),
                   Get(params, "arguments", EmptyObj), srv, env,
                   <<Effect("handler", "handle_tools_call")>>)

handle_resources_list(msg_id, srv) ==
    Ok(create_success_response(msg_id, JObj([resources |-> JArr(srv.resources)])),
       <<Effect("handler", "handle_resources_list")>>)

\* handle_resources_read, had it answered with an empty result
handle_resources_read_empty(msg_id, params) ==
    Ok(create_success_response(msg_id, JObj([contents |-> JArr(<<>>)])),
       <<Effect("handler", "handle_resources_read")>>)

handle_resources_read(msg_id, params) ==
    Ok(create_error_response(msg_id, -32601, "Resources not implemented in this server"),
       <<Effect("handler", "handle_resources_read")>>)

\* the routing of handle_message on method
route(method, params, msg_id, srv, env) ==
    IF method = JStr("initialize") THEN handle_initialize(msg_id, params)
    ELSE IF method = JStr("tools/list") THEN handle_tools_list(msg_id, srv)
    ELSE IF method = JStr("tools/call") THEN handle_tools_call(msg_id, params, srv, env)
    ELSE IF method = JStr("resources/list") THEN handle_resources_list(msg_id, srv)
    ELSE IF method = JStr("resources/read") THEN handle_resources_read(msg_id, params)
    ELSE IF method = JStr("ping")
    THEN Ok(create_success_response(msg_id, JStr("pong")), <<>>)
    ELSE Ok(create_error_response(msg_id, -32601,
                "Method not found: " \o PyStr(method)), <<>>)

\* the try block of handle_message, had it rejected a version only when one is given
dispatch_version_if_present(message, srv, env) ==
    IF message.t # "obj" THEN NoGet(message, <<>>)
    ELSE IF "jsonrpc" \in DOMAIN message.v /\ message.v["jsonrpc"] # JStr("2.0")
    THEN Ok(create_error_response(Get(message, "id", JNull), -32600, "Invalid Request"), <<>>)
    ELSE route(Get(message, "method", JNull), Get(message, "params", EmptyObj),
               Get(message, "id", JNull), srv, env)

\* the try block of handle_message
dispatch(message, srv, env) ==
    IF message.t # "obj" THEN NoGet(message, <<>>)
    ELSE IF Get(message, "jsonrpc", JNull) # JStr("2.0")
    THEN Ok(create_error_response(Get(message, "id", JNull), -32600, "Invalid Request"), <<>>)
    ELSE route(Get(message, "method", JNull), Get(message, "params", EmptyObj),
               Get(message, "id", JNull), srv, env)

\* the except clause of handle_message, had it answered with id None
dispatch_result_null_id(message, r) ==
    IF r.ok THEN r
    ELSE IF message.t # "obj" THEN NoGet(message, r.eff)
    ELSE Ok(create_error_response(JNull, -32603, "Internal error: " \o r.exc.msg), r.eff)

\* the except clause of handle_message once the try block has ended as r;
\* its own message.get("id") raises again when message is no dict
dispatch_result(message, r) ==
    IF r.ok THEN r
    ELSE IF message.t # "obj" THEN NoGet(message, r.eff)
    ELSE Ok(create_error_response(Get(message, "id", JNull), -32603,
                "Internal error: " \o r.exc.msg), r.eff)

handle_message(message, srv, env) ==
    dispatch_result(message, dispatch(message, srv, env))

---------------------------------------------------------------------------
(* main: the transport loop *)

TextLine(text) == [kind |-> "text", text |-> text]
JsonLine(value) == [kind |-> "json", value |-> value]
NoLine == [kind |-> "none"]

Whitespace == {" ", "\n", "\t", "\r"}

RECURSIVE lstrip(_)
lstrip(s) ==
    IF Len(s) > 0 /\ SubSeq(s, 1, 1) \in Whitespace
    THEN lstrip(SubSeq(s, 2, Len(s))) ELSE s

RECURSIVE rstrip(_)
rstrip(s) ==
    IF Len(s) > 0 /\ SubSeq(s, Len(s), Len(s)) \in Whitespace
    THEN rstrip(SubSeq(s, 1, Len(s) - 1)) ELSE s

\* str.strip()
strip(s) == rstrip(lstrip(s))

\* sys.stdin.readline(): the next line, or the empty string at end of stream
readline == IF nread < Len(stdin) THEN stdin[nread + 1] ELSE TextLine("")

\* `not line`, had the line been stripped before the test
LineEmpty_stripped(l) == l.kind = "text" /\ Len(strip(l.text)) = 0

\* `not line`: only the empty string is falsy
LineEmpty(l) == l.kind = "text" /\ Len(l.text) = 0

\* json.loads(line.strip()): a line of kind "json" is the text of the value
\* it carries; a line of kind "text" holds text that is no JSON document
json_loads(l) ==
    IF l.kind = "json" THEN Ok(l.value, <<>>)
    ELSE Raise("JSONDecodeError",
               "Expecting value: line 1 column 1 (char 0)", <<>>)

\* print(json.dumps(response)): one line holding the text of the response
json_dumps(response) == JsonLine(response)

\* main's try statement, had an exception out of handle_message been answered
\* as a parse error
Handled_as_parse_error(r) ==
    IF r.ok
    THEN [clause |-> "try", response |-> r.val, hm |-> "returned", eff |-> r.eff]
    ELSE [clause |-> "JSONDecodeError",
          response |-> create_error_response(JNull, -32700, "Parse error"),
          hm |-> "raised", eff |-> r.eff]

\* what handling one line does: which clause of main's try statement writes
\* the response, the response, whether handle_message was called and how it
\* ended, and the effects
\* main's try statement once handle_message has ended as r
Handled(r) ==
    IF r.ok
    THEN [clause |-> "try", response |-> r.val, hm |-> "returned", eff |-> r.eff]
    ELSE [clause |-> "Exception",
          response |-> create_error_response(JNull, -32603,
                            "Internal error: " \o r.exc.msg),
          hm |-> "raised", eff |-> r.eff]

\* main's try statement, had `except Exception` come before
\* `except json.JSONDecodeError`
Parsed_generic_first(m, srv, env) ==
    IF ~m.ok
    THEN [clause |-> "Exception",
          response |-> create_error_response(JNull, -32603,
                            "Internal error: " \o m.exc.msg),
          hm |-> "not called", eff |-> <<>>]
    ELSE Handled(handle_message(m.val, srv, env))

\* main's try statement once json.loads has ended as m
Parsed(m, srv, env) ==
    IF ~m.ok
    THEN [clause |-> "JSONDecodeError",
          response |-> create_error_response(JNull, -32700, "Parse error"),
          hm |-> "not called", eff |-> <<>>]
    ELSE Handled(handle_message(m.val, srv, env))

ProcessLine(l, srv, env) == Parsed(json_loads(l), srv, env)

---------------------------------------------------------------------------
(* The environment: file systems, working directories, network answers *)

File(content) == [kind |-> "file", content |-> content]
Dir == [kind |-> "dir", content |-> ""]
Locked == [kind |-> "locked", content |-> ""]
Binary == [kind |-> "binary", content |-> ""]

RECURSIVE Filler(_)
\* n characters
Filler(n) ==
    IF n = 0 THEN ""
    ELSE IF n % 2 = 1 THEN Filler(n - 1) \o "x"
    ELSE Filler(n \div 2) \o Filler(n \div 2)

\* a text of n characters (n > 1) whose first and last differ from the rest
Content(n) == "a" \o Filler(n - 2) \o "z"

FileSystemA ==
    "/tmp/a.txt" :> File("hello") @@ "/tmp/d" :> Dir @@ "/tmp/locked" :> Locked
    @@ "/tmp/bin" :> Binary @@ "/tmpx/secret" :> File("s3cret")
    @@ "/var/tmp/n.txt" :> File("note") @@ "/etc/shadow" :> File("root:*:19000")
    @@ "/app/data.txt" :> File("data") @@ "/application/key" :> File("k3y")
    @@ "/tmp/edge" :> File(Content(ReadLimit)) @@ "/tmp/big" :> File(Content(ReadLimit + 1))

FileSystemB == "/tmp/a.txt" :> File("other")

FileSystems == {FileSystemA, FileSystemB}

WorkingDirs == {"/app", "/"}

NetOutcomes ==
    { [kind |-> "ok", body |-> "<html>hi</html>"],
      [kind |-> "ok", body |-> Content(FetchLimit)],
      [kind |-> "ok", body |-> Content(FetchLimit + 1)],
      [kind |-> "urlerror", reason |-> "timed out"],
      [kind |-> "undecodable"] }

---------------------------------------------------------------------------
(* The input: request envelopes and lines *)

Absent == [t |-> "absent"]
Field(k, x) == IF x = Absent THEN <<>> ELSE k :> x

Envelope(jsonrpc, id, method, params) ==
    JObj(Field("jsonrpc", jsonrpc) @@ Field("id", id)
            @@ Field("method", method) @@ Field("params", params))

Call(name, arguments) == JObj(Field("name", name) @@ Field("arguments", arguments))

Versions == {Absent, JStr("2.0"), JStr("1.0"), JStr("2"), JInt(2), JNull}
BadVersions == Versions \ {JStr("2.0")}
Ids == {Absent, JNull, JInt(7), JStr("req-1")}

KnownMethods ==
    {"initialize", "tools/list", "tools/call", "resources/list", "resources/read", "ping"}
Methods ==
    {JStr(m) : m \in KnownMethods}
    \cup {Absent, JNull, JInt(5), JStr(""), JStr("PING"), JStr("tools/delete"),
          JArr(<<JStr("ping")>>)}

PlainParams == {Absent, JNull, EmptyObj, JArr(<<>>), JStr("x"),
                JObj("uri" :> JStr("file:///tmp/a.txt"))}

NumberArgs ==
    {Absent, JInt(2), JInt(3), JInt(-4), JInt(0), JReal(5), JReal(-1),
     JStr("x"), JStr("5"), JBool(TRUE), JBool(FALSE), JNull, JArr(<<JInt(1)>>), EmptyObj}
AddArguments ==
    {JObj(Field("a", a) @@ Field("b", b)) : a \in NumberArgs, b \in NumberArgs}

Urls == {Absent, JNull, JStr(""), JStr("http://example.com/"), JStr("example"),
         JInt(5), JArr(<<>>)}
HttpMethods == {Absent, JStr("GET"), JStr("POST"), JStr("get"), JNull, JInt(5)}
FetchArguments ==
    {JObj(Field("url", u) @@ Field("method", m)) : u \in Urls, m \in HttpMethods}

Paths ==
    {"/tmp/a.txt", "/tmp/missing", "/tmp/d", "/tmp/locked", "/tmp/bin", "/tmp",
     "/tmpx/secret", "/tmp/../etc/shadow", "/tmp/../tmp/a.txt", "//tmp/a.txt",
     "/var/tmp/n.txt", "/var/tmpfiles", "/var", "/etc/shadow", "../etc/shadow",
     "data.txt", "./data.txt", "/app/data.txt", "/application/key", "/app", "/",
     "/tmp/edge", "/tmp/big"}
ReadArguments ==
    {JObj(Field("path", x)) :
        x \in {JStr(q) : q \in Paths} \cup {Absent, JNull, JStr(""), JInt(5), JInt(0),
                                           JArr(<<JStr("/tmp/a.txt")>>)}}

OtherArguments == {Absent, JNull, JArr(<<>>), JStr("x"), EmptyObj}

ToolNameValues ==
    {Absent, JNull, JStr(""), JStr("addnumbers"), JStr("deleteFile"), JInt(1),
     JReal(3), JBool(TRUE), JArr(<<>>), JArr(<<JStr("addNumbers")>>), EmptyObj,
     JObj("name" :> JStr("readFile"))}

CallParams ==
    {Call(JStr("addNumbers"), x) : x \in AddArguments \cup OtherArguments}
    \cup {Call(JStr("fetchContent"), x) : x \in FetchArguments \cup OtherArguments}
    \cup {Call(JStr("readFile"), x) : x \in ReadArguments \cup OtherArguments}
    \cup {Call(n, x) : n \in ToolNameValues,
                       x \in {Absent, JObj("a" :> JInt(2) @@ "b" :> JInt(3)),
                              JObj("path" :> JStr("/tmp/a.txt"))}}

\* a few calls, for the requests whose version is wrong
SomeCalls ==
    {Call(JStr("addNumbers"), JObj("a" :> JInt(2) @@ "b" :> JInt(3))),
     Call(JStr("readFile"), JObj("path" :> JStr("/tmp/a.txt"))),
     Call(JStr("fetchContent"), JObj("url" :> JStr("http://example.com/")))}

Envelopes ==
    {Envelope(JStr("2.0"), i, JStr("tools/call"), x) :
        i \in Ids, x \in CallParams \cup PlainParams}
    \cup {Envelope(JStr("2.0"), i, m, x) : i \in Ids, m \in Methods, x \in PlainParams}
    \cup {Envelope(v, i, m, x) :
            v \in BadVersions, i \in Ids, m \in Methods, x \in {Absent} \cup SomeCalls}

\* JSON documents that are no object
NonObjects ==
    {JNull, JBool(TRUE), JInt(5), JReal(3), JStr("ping"), JArr(<<>>),
     JArr(<<Envelope(JStr("2.0"), JInt(7), JStr("ping"), Absent)>>)}

\* lines that are no JSON document
NonJsonTexts == {"\n", "   \n", "not json\n", "{\"jsonrpc\": \"2.0\", \n", "{'id': 1}\n", "ping"}

RequestLines ==
    {JsonLine(x) : x \in Envelopes \cup NonObjects} \cup {TextLine(x) : x \in NonJsonTexts}

\* the lines of the longer streams: one of each kind of answer
LoopLines ==
    {TextLine("not json\n"), TextLine("\n"), JsonLine(JArr(<<>>)), JsonLine(JInt(5))}
    \cup {JsonLine(Envelope(JStr("2.0"), JInt(7), JStr(m), Absent)) :
            m \in {"initialize", "tools/list", "resources/list", "resources/read",
                   "tools/call", "tools/delete"}}
    \cup {JsonLine(Envelope(JStr("2.0"), Absent, JStr("ping"), Absent)),
          JsonLine(Envelope(JStr("1.0"), JStr("req-1"), JStr("ping"), Absent)),
          JsonLine(Envelope(JStr("2.0"), JNull, JStr("tools/call"), JNull))}
    \cup {JsonLine(Envelope(JStr("2.0"), JStr("req-1"), JStr("tools/call"), x)) :
            x \in {Call(JStr("addNumbers"), JObj("a" :> JInt(2) @@ "b" :> JInt(3))),
                   Call(JStr("addNumbers"), JObj("a" :> JStr("x") @@ "b" :> JInt(1))),
                   Call(JStr("deleteFile"), Absent),
                   Call(JStr("readFile"), JObj("path" :> JStr("/tmp/a.txt"))),
                   Call(JStr("readFile"), JObj("path" :> JStr("/etc/shadow"))),
                   Call(JStr("fetchContent"), JObj("url" :> JStr("http://example.com/")))}}

MaxLines == 2

RECURSIVE SeqsUpTo(_, _)
\* the sequences over S of length at most n
SeqsUpTo(S, n) ==
    IF n = 0 THEN {<<>>}
    ELSE LET shorter == SeqsUpTo(S, n - 1)
         IN  shorter \cup {Append(q, x) : q \in {r \in shorter : Len(r) = n - 1}, x \in S}

Streams == SeqsUpTo(LoopLines, MaxLines) \cup {<<l>> : l \in RequestLines}

---------------------------------------------------------------------------
(* The state machine *)

Init ==
    /\ server = NewServer
    /\ fs \in FileSystems
    /\ cwd \in WorkingDirs
    /\ stdin \in Streams
    /\ nread = 0
    /\ line = NoLine
    /\ pc = "read"
    /\ stdout = <<>>
    /\ log = <<>>

Env(net) == [fs |-> fs, cwd |-> cwd, net |-> net]

\* readline, had the loop read on while a line was still being handled
ReadLine_ahead ==
    /\ pc \in {"read", "handle"}
    /\ ~LineEmpty(readline)
    /\ line' = readline
    /\ nread' = nread + 1
    /\ pc' = "handle"
    /\ UNCHANGED <<server, fs, cwd, stdin, stdout, log>>

\* line = sys.stdin.readline(), a line was there
ReadLine ==
    /\ pc = "read"
    /\ ~LineEmpty(readline)
    /\ line' = readline
    /\ nread' = nread + 1
    /\ pc' = "handle"
    /\ UNCHANGED <<server, fs, cwd, stdin, stdout, log>>

\* line = sys.stdin.readline() and `if not line: break`
ReadEOF ==
    /\ pc = "read"
    /\ LineEmpty(readline)
    /\ line' = readline
    /\ pc' = "done"
    /\ UNCHANGED <<server, fs, cwd, stdin, nread, stdout, log>>

\* the clauses of main, had the except clauses only logged
Written_only_try(p) ==
    /\ stdout' = IF p.clause = "try" THEN Append(stdout, json_dumps(p.response)) ELSE stdout
    /\ log' = IF p.clause = "try"
              THEN Append(log, [clause |-> p.clause, hm |-> p.hm, eff |-> p.eff]) ELSE log
    /\ pc' = "read"
    /\ UNCHANGED <<server, fs, cwd, stdin, nread, line>>

\* print(...) and sys.stdout.flush() of the clause that handled `line`
Written(p) ==
    /\ stdout' = Append(stdout, json_dumps(p.response))
    /\ log' = Append(log, [clause |-> p.clause, hm |-> p.hm, eff |-> p.eff])
    /\ pc' = "read"
    /\ UNCHANGED <<server, fs, cwd, stdin, nread, line>>

\* the try clause runs to its end: parse, handle_message, print
Respond ==
    /\ pc = "handle"
    /\ \E net \in NetOutcomes :
        \E p \in {ProcessLine(line, server, Env(net))} :
            p.clause = "try" /\ Written(p)

\* except json.JSONDecodeError
RespondParseError ==
    /\ pc = "handle"
    /\ \E net \in NetOutcomes :
        \E p \in {ProcessLine(line, server, Env(net))} :
            p.clause = "JSONDecodeError" /\ Written(p)

\* except Exception
RespondException ==
    /\ pc = "handle"
    /\ \E net \in NetOutcomes :
        \E p \in {ProcessLine(line, server, Env(net))} :
            p.clause = "Exception" /\ Written(p)

Next == ReadLine \/ ReadEOF \/ Respond \/ RespondParseError \/ RespondException

Spec == Init /\ [][Next]_vars

\* main moving from one statement of its loop to the next: readline to the
\* handling of the line or to the end, the handling back to readline
Advance == pc # "done" /\ pc' \in {"read", "handle", "done"} \ {pc}

\* the loop of main, which does not stop before its end: every statement of
\* it returns (readline on a finite stream, and each tool execution)
LiveSpec == Spec /\ WF_pc(Advance)

---------------------------------------------------------------------------
(* Reading the history: line k of stdin, its response, what ran for it *)

Answered == 1..Len(stdout)
Request(k) == stdin[k].value
Response(k) == stdout[k].value

IsObject(k) == stdin[k].kind = "json" /\ stdin[k].value.t = "obj"
IsError(r) == "error" \in DOMAIN r.v
IsSuccess(r) == "result" \in DOMAIN r.v
Code(r) == r.v["error"].v["code"].v
Message(r) == r.v["error"].v["message"].v
ResultText(r) == r.v["result"].v["content"].v[1].v["text"].v

\* whether sub occurs in s
Contains(s, sub) ==
    \E i \in 1..(Len(s) - Len(sub) + 1) : SubSeq(s, i, i + Len(sub) - 1) = sub

Ran(k, op) == {log[k].eff[i].arg : i \in {j \in 1..Len(log[k].eff) : log[k].eff[j].op = op}}

\* a request with version "2.0" and the given method
IsRequest(k, method) ==
    /\ IsObject(k)
    /\ Get(Request(k), "jsonrpc", JNull) = JStr("2.0")
    /\ Get(Request(k), "method", JNull) = JStr(method)

\* a tools/call request whose params is a map
IsCall(k) == IsRequest(k, "tools/call") /\ Get(Request(k), "params", EmptyObj).t = "obj"
CallName(k) == Get(Get(Request(k), "params", EmptyObj), "name", JNull)
CallArguments(k) == Get(Get(Request(k), "params", EmptyObj), "arguments", EmptyObj)

\* the responses line l can get from a newly constructed server
Answers(l) == {json_dumps(ProcessLine(l, NewServer, Env(net)).response) : net \in NetOutcomes}

---------------------------------------------------------------------------
(* C1: the loop writes exactly one response per line read, in arrival      *)
(* order: while main waits to read, as many responses are written as lines *)
(* were read; while a line is being handled, one less; response k is an    *)
(* answer to line k; and at the end of the stream every line has its one.  *)
C1_OneResponsePerLine ==
    /\ Len(stdout) = (IF pc = "handle" THEN nread - 1 ELSE nread)
    /\ Len(log) = Len(stdout)
    /\ \A k \in Answered : stdout[k] \in Answers(stdin[k])
    /\ pc = "done" => Len(stdout) = Len(stdin)

\* two lines of different kinds were read and answered, and the stream ended
C1_Witness ==
    /\ pc = "done"
    /\ Len(stdout) = 2
    /\ stdin[1].kind = "text"
    /\ stdin[2].kind = "json"
    /\ IsSuccess(Response(2))

(* C2: handle_message returns a response for every decoded JSON value and  *)
(* never raises: whenever it was called it returned, and an internal fault *)
(* gives a -32603 response.                                                *)
C2_HandleMessageNeverRaises ==
    \A k \in Answered :
        stdin[k].kind = "json" => log[k].hm = "returned" /\ log[k].clause = "try"

(* C3: an object whose jsonrpc is absent or not "2.0" is answered with     *)
(* -32600 and the envelope's id whatever its method and params, and no     *)
(* handler and no tool runs for it.                                        *)
C3_BadVersionIsInvalidRequest ==
    \A k \in Answered :
        (IsObject(k) /\ Get(Request(k), "jsonrpc", JNull) # JStr("2.0")) =>
            /\ IsError(Response(k))
            /\ ~IsSuccess(Response(k))
            /\ Code(Response(k)) = -32600
            /\ Response(k).v["id"] = Get(Request(k), "id", JNull)
            /\ log[k].eff = <<>>

\* a tools/call of readFile under version "1.0" was answered
C3_Witness ==
    \E k \in Answered :
        /\ IsObject(k)
        /\ Get(Request(k), "jsonrpc", JNull) = JStr("1.0")
        /\ Get(Request(k), "method", JNull) = JStr("tools/call")
        /\ Get(Request(k), "id", JNull) = JStr("req-1")
        /\ "params" \in DOMAIN Request(k).v
        /\ Code(Response(k)) = -32600

(* C4: a request with version "2.0" whose method is none of initialize,    *)
(* tools/list, tools/call, resources/list, ping is answered with -32601    *)
(* and the request's id.                                                   *)
C4_UnsupportedMethod ==
    \A k \in Answered :
        ( /\ IsObject(k)
          /\ Get(Request(k), "jsonrpc", JNull) = JStr("2.0")
          /\ Get(Request(k), "method", JNull) \notin
                {JStr(m) : m \in {"initialize", "tools/list", "tools/call",
                                  "resources/list", "ping"}} ) =>
            /\ IsError(Response(k))
            /\ Code(Response(k)) = -32601
            /\ Response(k).v["id"] = Get(Request(k), "id", JNull)

\* a resources/read that carries params was answered
C4_Witness ==
    \E k \in Answered :
        /\ IsRequest(k, "resources/read")
        /\ "params" \in DOMAIN Request(k).v
        /\ Get(Request(k), "id", JNull) = JInt(7)
        /\ Code(Response(k)) = -32601

(* C5: a line that is no JSON is answered with one error of id null and    *)
(* code -32700, -32700 answers nothing else, and the loop goes on: every   *)
(* line after it is answered as a newly started server answers it, and the *)
(* loop ends only when the whole stream was answered.                      *)
C5_ParseErrorNotFatal ==
    /\ \A k \in Answered :
        /\ stdin[k].kind = "text" =>
                /\ IsError(Response(k))
                /\ Code(Response(k)) = -32700
                /\ Response(k).v["id"] = JNull
                /\ log[k].clause = "JSONDecodeError"
        /\ (IsError(Response(k)) /\ Code(Response(k)) = -32700) => stdin[k].kind = "text"
        /\ (\E j \in 1..(k - 1) : stdin[j].kind = "text") => stdout[k] \in Answers(stdin[k])
    /\ (pc = "done" /\ \E j \in 1..Len(stdin) : stdin[j].kind = "text") =>
            Len(stdout) = Len(stdin)
    /\ (pc = "handle" /\ line.kind = "text") => ENABLED RespondParseError

\* a malformed line was answered, then addNumbers 2 + 3 was answered "5"
C5_Witness ==
    /\ Len(stdout) = 2
    /\ stdin[1] = TextLine("not json\n")
    /\ Code(Response(1)) = -32700
    /\ IsCall(2)
    /\ CallName(2) = JStr("addNumbers")
    /\ IsSuccess(Response(2))
    /\ ResultText(Response(2)) = "5"

(* C6: the response to a parsed request object carries the request's id    *)
(* unchanged, on success and on every error; a request with no id gets a   *)
(* response of id null.                                                    *)
C6_IdEchoed ==
    \A k \in Answered :
        IsObject(k) =>
            /\ "id" \in DOMAIN Response(k).v
            /\ Response(k).v["id"] = Get(Request(k), "id", JNull)
            /\ "id" \notin DOMAIN Request(k).v => Response(k).v["id"] = JNull

\* an internal error (params null) under the string id "req-1" was answered
C6_Witness ==
    \E k \in Answered :
        /\ IsRequest(k, "tools/call")
        /\ Get(Request(k), "params", EmptyObj) = JNull
        /\ Get(Request(k), "id", JNull) = JStr("req-1")
        /\ Code(Response(k)) = -32603
        /\ Response(k).v["id"] = JStr("req-1")

(* C7: every response written holds jsonrpc "2.0", an id, and exactly one  *)
(* of result and error.                                                    *)
C7_ResponseShape ==
    \A k \in Answered :
        /\ stdout[k].kind = "json"
        /\ Response(k).t = "obj"
        /\ "jsonrpc" \in DOMAIN Response(k).v
        /\ Response(k).v["jsonrpc"] = JStr("2.0")
        /\ "id" \in DOMAIN Response(k).v
        /\ IsSuccess(Response(k)) # IsError(Response(k))

\* a success and an error were written in one run
C7_Witness ==
    /\ Len(stdout) = 2
    /\ IsSuccess(Response(1))
    /\ IsError(Response(2))
    /\ log[2].clause = "Exception"

RegisteredNames == {JStr("addNumbers"), JStr("fetchContent"), JStr("readFile")}

(* C8: a tools/call whose params.name is none of the three registered     *)
(* names, whatever its JSON type, is answered with -32602 and execute_tool *)
(* is not invoked.                                                         *)
C8_UnknownToolIsInvalidParams ==
    \A k \in Answered :
        (IsCall(k) /\ CallName(k) \notin RegisteredNames) =>
            /\ IsError(Response(k))
            /\ Code(Response(k)) = -32602
            /\ Ran(k, "execute_tool") = {}

IsJsonNumber(x) == x.t \in {"int", "real"}

(* C9: addNumbers succeeds exactly when a and b are both present and JSON  *)
(* numbers, its text then being the rendering of a + b; otherwise the      *)
(* response is a -32603 error whose message mentions "numbers".            *)
C9_AddNumbersIffNumbers ==
    \A k \in Answered :
        (IsCall(k) /\ CallName(k) = JStr("addNumbers") /\ CallArguments(k).t = "obj") =>
            IF /\ IsJsonNumber(Get(CallArguments(k), "a", JNull))
               /\ IsJsonNumber(Get(CallArguments(k), "b", JNull))
            THEN /\ IsSuccess(Response(k))
                 /\ Len(Response(k).v["result"].v["content"].v) = 1
                 /\ Response(k).v["result"].v["content"].v[1].v["type"] = JStr("text")
                 /\ CallArguments(k) = JObj([a |-> JInt(2), b |-> JInt(3)]) =>
                        ResultText(Response(k)) = "5"
            ELSE /\ IsError(Response(k))
                 /\ Code(Response(k)) = -32603
                 /\ Contains(Message(Response(k)), "numbers")

Descendant(path, root) ==
    path = root \/ startswith(path, IF endswith(root, "/") THEN root ELSE root \o "/")
InSafeDirs(path, wd) ==
    \E root \in {"/tmp", "/var/tmp", wd} : Descendant(abspath(path, wd), root)

(* C10: readFile reads only inside the safe directories: a path whose      *)
(* absolute form is neither /tmp, /var/tmp or the working directory nor a  *)
(* descendant of one of them is answered with an error saying access is    *)
(* not allowed, and no file is opened.                                     *)
C10_ReadFileOnlyInSafeDirs ==
    \A k \in Answered :
        ( /\ IsCall(k)
          /\ CallName(k) = JStr("readFile")
          /\ CallArguments(k).t = "obj"
          /\ Get(CallArguments(k), "path", JNull).t = "str"
          /\ Get(CallArguments(k), "path", JNull).v # ""
          /\ ~InSafeDirs(Get(CallArguments(k), "path", JNull).v, cwd) ) =>
            /\ IsError(Response(k))
            /\ Contains(Message(Response(k)), "not allowed")
            /\ Ran(k, "open") = {}

\* a tools/call of readFile whose arguments are a map with a string path
IsReadFile(k) ==
    /\ IsCall(k)
    /\ CallName(k) = JStr("readFile")
    /\ CallArguments(k).t = "obj"
    /\ Get(CallArguments(k), "path", JNull).t = "str"
ReadPath(k) == Get(CallArguments(k), "path", JNull).v

(* C11: a readFile whose path lies inside an allowed root and names no     *)
(* file, or something that is no regular file, is answered with a success  *)
(* whose one content text is "File not found or not accessible: " and the  *)
(* path as supplied.                                                       *)
C11_MissingFileIsSuccess ==
    \A k \in Answered :
        ( /\ IsReadFile(k)
          /\ ReadPath(k) # ""
          /\ InSafeDirs(ReadPath(k), cwd)
          /\ \/ abspath(ReadPath(k), cwd) \notin DOMAIN fs
             \/ fs[abspath(ReadPath(k), cwd)].kind = "dir" ) =>
            /\ IsSuccess(Response(k))
            /\ ~IsError(Response(k))
            /\ Len(Response(k).v["result"].v["content"].v) = 1
            /\ ResultText(Response(k)) = "File not found or not accessible: " \o ReadPath(k)
            /\ Ran(k, "open") = {}

\* a missing file and a directory under /tmp were asked for and answered
C11_Witness ==
    \E k \in Answered :
        /\ IsReadFile(k)
        /\ ReadPath(k) = "/tmp/d"
        /\ "/tmp/d" \in DOMAIN fs
        /\ ResultText(Response(k)) = "File not found or not accessible: /tmp/d"

\* the tools a tools/list answer lists
Listed(r) == r.v["result"].v["tools"].v

(* C12: no request changes the server's state (tools registry, resources   *)
(* list, message_id): after any requests, tools/list answers exactly       *)
(* addNumbers, fetchContent, readFile in registry order with their         *)
(* declared descriptions and schemas, and resources/list answers an empty  *)
(* list.                                                                   *)
C12_ServerStateUnchanged ==
    /\ server = NewServer
    /\ \A k \in Answered :
        /\ IsRequest(k, "tools/list") =>
            /\ IsSuccess(Response(k))
            /\ DOMAIN Response(k).v["result"].v = {"tools"}
            /\ [i \in 1..Len(Listed(Response(k))) |-> Listed(Response(k))[i].v["name"]]
                 = <<JStr("addNumbers"), JStr("fetchContent"), JStr("readFile")>>
            /\ \A i \in 1..Len(Listed(Response(k))) :
                /\ DOMAIN Listed(Response(k))[i].v = {"name", "description", "inputSchema"}
                /\ Listed(Response(k))[i].v["description"] = Tools[i].info.v["description"]
                /\ Listed(Response(k))[i].v["inputSchema"] = Tools[i].info.v["inputSchema"]
        /\ IsRequest(k, "resources/list") =>
            /\ IsSuccess(Response(k))
            /\ Response(k).v["result"] = JObj([resources |-> JArr(<<>>)])

\* tools/list answered after a tool call had run
C12_Witness ==
    /\ Len(stdout) = 2
    /\ IsCall(1)
    /\ Ran(1, "execute_tool") # {}
    /\ IsRequest(2, "tools/list")
    /\ Len(Listed(Response(2))) = 3

\* a tools/call of fetchContent answered with a success
FetchSucceeded(k) ==
    IsCall(k) /\ CallName(k) = JStr("fetchContent") /\ IsSuccess(Response(k))

\* a tools/call of readFile answered with a success
ReadSucceeded(k) ==
    IsCall(k) /\ CallName(k) = JStr("readFile") /\ IsSuccess(Response(k))

\* text is content under the cap: content itself when it has at most cap
\* characters, else its first cap characters and then the marker
Capped(text, content, cap) ==
    \/ Len(content) <= cap /\ text = content
    \/ /\ Len(content) > cap
       /\ Len(text) = cap + Len("... [truncated]")
       /\ SubSeq(text, 1, cap) = SubSeq(content, 1, cap)
       /\ SubSeq(text, cap + 1, Len(text)) = "... [truncated]"

\* C13 as stated: the text of a successful fetchContent has at most 2000
\* characters and that of a successful readFile at most 5000
C13_TextWithinCap ==
    \A k \in Answered :
        /\ FetchSucceeded(k) => Len(ResultText(Response(k))) <= 2000
        /\ ReadSucceeded(k) => Len(ResultText(Response(k))) <= 5000

(* C13: the content carried by a successful tool result is capped per      *)
(* tool, 2000 characters of the fetched body and 5000 of the file read:    *)
(* content within the cap is returned unchanged, content over the cap is   *)
(* cut to its first cap characters and the marker "... [truncated]" is     *)
(* appended after them, so that the text has the cap and 15 characters.    *)
C13_ContentCappedThenMarked ==
    \A k \in Answered :
        /\ FetchSucceeded(k) =>
            \E net \in NetOutcomes :
                /\ net.kind = "ok"
                /\ Capped(ResultText(Response(k)), net.body, 2000)
        /\ (ReadSucceeded(k) /\ Ran(k, "open") # {}) =>
            Capped(ResultText(Response(k)),
                   fs[abspath(ReadPath(k), cwd)].content, 5000)
        /\ FetchSucceeded(k) => Len(ResultText(Response(k))) <= 2000 + 15
        /\ (ReadSucceeded(k) /\ Ran(k, "open") # {}) =>
            Len(ResultText(Response(k))) <= 5000 + 15

\* a file of 5001 characters was read and answered with 5015
C13_Witness ==
    \E k \in Answered :
        /\ IsReadFile(k)
        /\ ReadSucceeded(k)
        /\ ReadPath(k) = "/tmp/big"
        /\ "/tmp/big" \in DOMAIN fs
        /\ Len(fs["/tmp/big"].content) = 5001
        /\ Len(ResultText(Response(k))) = 5015

\* a tools/call of fetchContent whose arguments are a map
IsFetch(k) ==
    /\ IsCall(k)
    /\ CallName(k) = JStr("fetchContent")
    /\ CallArguments(k).t = "obj"

\* the call supplies a method and it is not "GET"
OtherMethod(k) ==
    /\ "method" \in DOMAIN CallArguments(k).v
    /\ CallArguments(k).v["method"] # JStr("GET")

\* the answer is the -32603 error saying the method is not supported, and no
\* network request was made
NotSupported(k) ==
    /\ IsError(Response(k))
    /\ Code(Response(k)) = -32603
    /\ Contains(Message(Response(k)), "not supported")
    /\ Ran(k, "urlopen") = {}

\* C14 as stated: every fetchContent call with a method other than "GET" is
\* answered with the "not supported" error
C14_OtherMethodNotSupported ==
    \A k \in Answered : (IsFetch(k) /\ OtherMethod(k)) => NotSupported(k)

(* C14: for a fetchContent call whose arguments carry a url that is neither *)
(* absent nor empty, an absent method is treated as "GET" (the request is   *)
(* made, as it is for "GET"), and any supplied method other than "GET",     *)
(* "POST" included, fails with a -32603 error whose message says the        *)
(* method is not supported, no network request being made.                  *)
C14_MethodWithUrl ==
    \A k \in Answered :
        (IsFetch(k) /\ ~Falsy(Get(CallArguments(k), "url", JNull))) =>
            /\ OtherMethod(k) => NotSupported(k)
            /\ ~OtherMethod(k) =>
                /\ Ran(k, "urlopen") = {PyStr(CallArguments(k).v["url"])}
                /\ ~(IsError(Response(k)) /\ Contains(Message(Response(k)), "not supported"))

\* "POST" was refused for a url that was there
C14_Witness ==
    \E k \in Answered :
        /\ IsFetch(k)
        /\ Get(CallArguments(k), "url", JNull) = JStr("http://example.com/")
        /\ Get(CallArguments(k), "method", JNull) = JStr("POST")
        /\ Message(Response(k)) = "Tool execution failed: HTTP method 'POST' not supported"

(* C15: at most one request is in flight: a line is read only when every   *)
(* line read before it has its response written, and a response is written *)
(* only for the one line read last, after the responses of all earlier     *)
(* lines, so tool executions do not overlap and responses keep the order   *)
(* of the requests.                                                        *)
C15_OneRequestInFlight ==
    [][ /\ nread' # nread =>
            /\ pc = "read"
            /\ nread' = nread + 1
            /\ Len(stdout) = nread
            /\ stdout' = stdout
        /\ stdout' # stdout =>
            /\ pc = "handle"
            /\ nread' = nread
            /\ Len(stdout) = nread - 1
            /\ \E net \in NetOutcomes :
                /\ stdout' = Append(stdout,
                        json_dumps(ProcessLine(stdin[nread], server, Env(net)).response))
                /\ log' = Append(log,
                        [clause |-> ProcessLine(stdin[nread], server, Env(net)).clause,
                         hm |-> ProcessLine(stdin[nread], server, Env(net)).hm,
                         eff |-> ProcessLine(stdin[nread], server, Env(net)).eff]) ]_vars

\* a second tool call was read after the first had been answered, and ran
C15_Witness ==
    /\ nread = 2
    /\ Len(stdout) = 2
    /\ Ran(1, "execute_tool") # {}
    /\ Ran(2, "execute_tool") # {}
    /\ stdout[1] # stdout[2]

\* line k is a JSON document that is no object
IsNonObject(k) == stdin[k].kind = "json" /\ stdin[k].value.t # "obj"

(* C16: a line that is valid JSON but no object (array, string, number,    *)
(* boolean, null) is answered with exactly one internal error, code        *)
(* -32603 and id null, and the loop goes on to the next line.              *)
C16_NonObjectIsInternalError ==
    \A k \in 1..nread :
        IsNonObject(k) =>
            /\ (k < nread \/ pc # "handle") => k \in Answered
            /\ k \in Answered =>
                /\ IsError(Response(k))
                /\ ~IsSuccess(Response(k))
                /\ Code(Response(k)) = -32603
                /\ Response(k).v["id"] = JNull
                /\ log[k].clause = "Exception"
                /\ Len(stdout) = (IF pc = "handle" THEN nread - 1 ELSE nread)
            /\ (pc = "done" /\ k < Len(stdin)) =>
                /\ k + 1 \in Answered
                /\ stdout[k + 1] \in Answers(stdin[k + 1])

\* an array was answered and the request after it was answered with a success
C16_Witness ==
    /\ Len(stdout) = 2
    /\ IsNonObject(1)
    /\ stdin[1].value.t = "arr"
    /\ Code(Response(1)) = -32603
    /\ IsObject(2)
    /\ IsSuccess(Response(2))

(* C17: every failure raised while a registered tool executes is caught by *)
(* handle_tools_call and becomes one error response with code -32603, a    *)
(* message starting with "Tool execution failed" and the id of the         *)
(* request; it is written by the try clause of the loop, never by its      *)
(* catch-all.                                                              *)
C17_ToolFailureIsCaught ==
    \A k \in Answered :
        Ran(k, "execute_tool") # {} =>
            /\ log[k].clause = "try"
            /\ log[k].hm = "returned"
            /\ Response(k).v["id"] = Get(Request(k), "id", JNull)
            /\ ~IsSuccess(Response(k)) =>
                /\ IsError(Response(k))
                /\ Code(Response(k)) = -32603
                /\ startswith(Message(Response(k)), "Tool execution failed")

\* a tool given arguments that are no map failed, and the error has the id
C17_Witness ==
    \E k \in Answered :
        /\ IsCall(k)
        /\ CallName(k) = JStr("addNumbers")
        /\ CallArguments(k).t = "arr"
        /\ Ran(k, "execute_tool") = {"addNumbers"}
        /\ Response(k).v["id"] = JInt(7)
        /\ startswith(Message(Response(k)), "Tool execution failed: 'list' object")

(* C18: on every finite input stream, each tool execution returning, the   *)
(* loop eventually reaches the end of the stream and terminates; it        *)
(* terminates only on the empty read at the end of the stream, with every  *)
(* line read and answered, whatever the lines were, and a line that is     *)
(* just a newline is not taken for the end.                                *)
C18_TerminatesOnlyAtEOF ==
    /\ <>(pc = "done")
    /\ [](pc = "done" =>
            /\ line = TextLine("")
            /\ nread = Len(stdin)
            /\ Len(stdout) = Len(stdin)
            /\ \A k \in Answered : stdin[k] = TextLine("\n") => Code(Response(k)) = -32700)

\* the loop ended after a newline-only line and a failing tool, both answered
C18_Witness ==
    /\ pc = "done"
    /\ Len(stdin) = 2
    /\ stdin[1] = TextLine("\n")
    /\ Code(Response(1)) = -32700
    /\ Ran(2, "execute_tool") # {}
    /\ IsError(Response(2))

ErrorCodes == {-32700, -32600, -32601, -32602, -32603}

(* C19: the code of every error response written, after any input, is one  *)
(* of -32700, -32600, -32601, -32602, -32603, and the message of every     *)
(* error object is a string.                                               *)
C19_FixedErrorCodes ==
    \A k \in Answered :
        IsError(Response(k)) =>
            /\ Response(k).v["error"].t = "obj"
            /\ {"code", "message"} \subseteq DOMAIN Response(k).v["error"].v
            /\ Response(k).v["error"].v["code"].t = "int"
            /\ Code(Response(k)) \in ErrorCodes
            /\ Response(k).v["error"].v["message"].t = "str"

\* an unknown tool was answered -32602 after a line that is no JSON
C19_Witness ==
    /\ Len(stdout) = 2
    /\ IsError(Response(1))
    /\ Code(Response(1)) = -32700
    /\ IsError(Response(2))
    /\ Code(Response(2)) = -32602
    /\ Message(Response(2)) = "Unknown tool: deleteFile"

\* the response line k gets when the file system is f, all else the same
ResponseUnder(k, f) ==
    {ProcessLine(stdin[k], server, [fs |-> f, cwd |-> cwd, net |-> net]).response :
        net \in NetOutcomes}

(* C20: readFile checks the allow-list before it consults the file system: *)
(* a path outside the allowed roots is answered with the same "access not  *)
(* allowed" error whether or not a file is there, so two runs that differ  *)
(* only in what the file system holds answer such a path alike.            *)
C20_DisallowedPathRevealsNothing ==
    \A k \in Answered :
        (IsReadFile(k) /\ ReadPath(k) # "" /\ ~InSafeDirs(ReadPath(k), cwd)) =>
            /\ IsError(Response(k))
            /\ Contains(Message(Response(k)), "not allowed")
            /\ \A f \in FileSystems : ResponseUnder(k, f) = {Response(k)}

=============================================================================
